---- MODULE Spec2Model ----
(***************************************************************************)
(* Model of the Akinator inference-and-learning engine of src/main.py:     *)
(* the four HTTP handlers (start_session, answer_question, confirm_guess,  *)
(* submit_suggestion), the session registry, and the knowledge base that   *)
(* is persisted as a CSV file.                                             *)
(*                                                                         *)
(* Numbers.  The knowledge base is written with three decimals             *)
(* (sauvegarde_csv, "{valeur:.3f}"), so a cell is an integer number of     *)
(* thousandths.  The belief vector proba_animaux is kept EXACTLY, as a     *)
(* vector of numerators over one common denominator; the numerators grow   *)
(* by a factor of about 10^9 with every answer (likelihood in thousandths, *)
(* epsilon 1e-6), so they are arbitrary-precision naturals: little-endian  *)
(* sequences of digits in base 1000.  The model therefore follows the real *)
(* arithmetic the code approximates with float64.  Only the entropy of     *)
(* calcul_IM, which needs log2, is computed in binary fixed point.         *)
(*                                                                         *)
(* Indices.  Candidates and questions are numbered from 1 (Python: from    *)
(* 0); answer indices keep the wire encoding 0..4.  0 stands for Python's  *)
(* None / an absent dictionary key.                                        *)
(***************************************************************************)
EXTENDS Integers, Sequences, FiniteSets, TLC

(***************************************************************************)
(* Program constants                                                       *)
(***************************************************************************)
\* VALEURS_REPONSES = [1, 0.75, 0.5, 0.25, 0], in thousandths, by wire index
VALEURS_REPONSES == [i \in 0..4 |-> 1000 - 250 * i]

\* SEUIL = 0.7, in thousandths
SEUIL == 700

\* one unit of the knowledge base (the value 1.0 in thousandths)
UN == 1000

\* likelihood floor 0.05 of donner_proba_animaux_sachant_r, in thousandths
PLANCHER == 50

\* 1 / 1e-6 : the smoothing addend of answer_question is 1/EPS_INV
EPS_INV == 1000000

\* alpha = 0.1 of actualisation_valeurs_theoriques is 1/ALPHA_INV
ALPHA_INV == 10

\* echecs_consecutifs >= 3 asks for a suggestion
MAX_ECHECS == 3

(***************************************************************************)
(* Arbitrary-precision naturals (Python/numpy arithmetic on the belief)    *)
(***************************************************************************)
BASE == 1000

Max(a, b) == IF a >= b THEN a ELSE b

Abs(x) == IF x >= 0 THEN x ELSE -x

\* the sequence <<Op(1), ..., Op(n)>> (a list or numpy vector built
\* element by element)
Tab(n, Op(_)) ==
    LET f[i \in 0..n] == IF i = 0 THEN << >> ELSE Append(f[i - 1], Op(i))
    IN  f[n]

RECURSIVE BCarry(_, _)
BCarry(s, c) ==
    IF s = <<>>
    THEN IF c = 0 THEN <<>> ELSE <<c % BASE>> \o BCarry(<<>>, c \div BASE)
    ELSE LET v == Head(s) + c
         IN  <<v % BASE>> \o BCarry(Tail(s), v \div BASE)

RECURSIVE BTrim(_)
BTrim(s) ==
    IF s # <<>> /\ s[Len(s)] = 0 THEN BTrim(SubSeq(s, 1, Len(s) - 1)) ELSE s

BDigit(a, i) == IF i <= Len(a) THEN a[i] ELSE 0

\* an Int >= 0 as a big natural
BNat(n) == BCarry(<<>>, n)

BAdd(a, b) ==
    BTrim(BCarry(Tab(Max(Len(a), Len(b)), LAMBDA i : BDigit(a, i) + BDigit(b, i)), 0))

\* a * k for an Int 0 <= k <= 10^6
BScale(a, k) == BTrim(BCarry(Tab(Len(a), LAMBDA i : a[i] * k), 0))

RECURSIVE BLessFrom(_, _, _)
BLessFrom(a, b, i) ==
    IF i = 0 THEN FALSE
    ELSE IF a[i] # b[i] THEN a[i] < b[i]
    ELSE BLessFrom(a, b, i - 1)

\* a < b, for trimmed a and b
BLess(a, b) ==
    IF Len(a) # Len(b) THEN Len(a) < Len(b) ELSE BLessFrom(a, b, Len(a))

BLeq(a, b) == ~BLess(b, a)

RECURSIVE BSumFrom(_, _)
BSumFrom(v, i) == IF i > Len(v) THEN <<>> ELSE BAdd(v[i], BSumFrom(v, i + 1))

\* np.sum of a vector of big naturals
BSum(v) == BSumFrom(v, 1)

(***************************************************************************)
(* Knowledge bases the sessions are loaded from (charger_donnees).  A      *)
(* knowledge base is [compteur_apparitions, donnees]: one counter per      *)
(* candidate, and donnees[q][c] in thousandths.  The candidate and         *)
(* question texts (animaux, questions) are identified with their indices.  *)
(***************************************************************************)
NbAnimaux(kb) == Len(kb.compteur_apparitions)

NbQuestions(kb) == Len(kb.donnees)

\* three candidates, two questions: the matrix of the scenario of the
\* specification, with a prior that favours the first candidate
BaseTrois ==
    [compteur_apparitions |-> <<2, 1, 1>>,
     donnees |-> << <<900, 100, 500>>, <<200, 800, 500>> >>]

\* two candidates, one question, extreme cells, uniform prior
BaseDeux ==
    [compteur_apparitions |-> <<1, 1>>,
     donnees |-> << <<1000, 0>> >>]

\* two candidates, two questions that mirror each other: both questions
\* have the same expected entropy under the uniform prior
BaseJumelle ==
    [compteur_apparitions |-> <<1, 1>>,
     donnees |-> << <<1000, 0>>, <<0, 1000>> >>]

BasesInitiales == {BaseTrois, BaseDeux, BaseJumelle}

(***************************************************************************)
(* Fonctions de calcul                                                     *)
(***************************************************************************)
\* np.maximum(1 - abs(r - donnees), 0.05), one cell, in thousandths
Vraisemblance(r, d) == Max(UN - Abs(r - d), PLANCHER)

\* A belief vector is [num, den]: the probability of candidate c is
\* num[c] / den.
\* line 257, one row: numerateurs = likelihood * proba_animaux, over the
\* common denominator UN * proba.den
Numerateurs(r, ligne, proba) ==
    Tab(Len(ligne), LAMBDA c : BScale(proba.num[c], Vraisemblance(r, ligne[c])))

\* lines 259-260, one row: the posterior numerateurs / denominateur and the
\* mass p_r = denominateur, the latter as a fraction [num, den]; a zero
\* denominateur is replaced by 1
Quotient(numerateurs, denominateur, proba) ==
    IF denominateur = << >>
    THEN [post |-> [num |-> numerateurs, den |-> <<1>>],
          p_r  |-> [num |-> <<1>>, den |-> <<1>>]]
    ELSE [post |-> [num |-> numerateurs, den |-> denominateur],
          p_r  |-> [num |-> denominateur, den |-> BScale(proba.den, UN)]]

\* line 258, one row: denominateur = np.sum(numerateurs)
AvecDenominateur(numerateurs, proba) ==
    Quotient(numerateurs, BSum(numerateurs), proba)

\* one row of donner_proba_animaux_sachant_r
PosterieurLigne(r, ligne, proba) ==
    AvecDenominateur(Numerateurs(r, ligne, proba), proba)

\* donner_proba_animaux_sachant_r: every row (question) of the matrix
donner_proba_animaux_sachant_r(r, donnees, proba) ==
    Tab(Len(donnees), LAMBDA q : PosterieurLigne(r, donnees[q], proba))

\* fixed point of calcul_IM: a probability is a number of 1/FX
FX == 1024

FX_BITS == 10

RECURSIVE PartieEntiereLog2(_)
PartieEntiereLog2(n) == IF n < 2 THEN 0 ELSE 1 + PartieEntiereLog2(n \div 2)

RECURSIVE Puissance2(_)
Puissance2(k) == IF k = 0 THEN 1 ELSE 2 * Puissance2(k - 1)

\* np.log2(n), n >= 1, in 1/FX: exact at the powers of two, linear between
Log2Fixe(n) ==
    LET k == PartieEntiereLog2(n)
    IN  k * FX + ((n - Puissance2(k)) * FX) \div Puissance2(k)

\* np.where(p > 0, -p * np.log2(p), 0) for p = n / FX, in 1/(FX * FX)
TermeEntropie(n) == IF n > 0 THEN n * (FX_BITS * FX - Log2Fixe(n)) ELSE 0

\* A fraction [num, den] <= 1 as a number of 1/FX.  Like a float division
\* the quotient keeps a bounded mantissa: it is taken on the two leading
\* base-1000 digits of the denominator and the digits of the numerator of
\* the same weight, and rounded down.
EnFixe(f) ==
    LET k == Max(Len(f.den) - 2, 0)
        den == BDigit(f.den, k + 1) + BASE * BDigit(f.den, k + 2)
        num == BDigit(f.num, k + 1) + BASE * BDigit(f.num, k + 2)
    IN  (num * FX) \div den

RECURSIVE SommeEntiers(_, _)
SommeEntiers(v, i) == IF i > Len(v) THEN 0 ELSE v[i] + SommeEntiers(v, i + 1)

\* lines 266-268, one row of one answer value: h_r * p_r, where h_r is the
\* entropy of the posterior of the row
Hr_Pr(ligne) ==
    (SommeEntiers(Tab(Len(ligne.post.num), LAMBDA c :
         TermeEntropie(EnFixe([num |-> ligne.post.num[c],
                               den |-> ligne.post.den]))), 1) \div 16)
    * EnFixe(ligne.p_r)

\* lines 265-268 for one answer value r: h_r * p_r of every row
TermesIM(lignes) == Tab(Len(lignes), LAMBDA q : Hr_Pr(lignes[q]))

\* IM += ..., over the answer values
SommeParQuestion(termes, nb_questions) ==
    Tab(nb_questions, LAMBDA q :
        SommeEntiers(Tab(Len(termes), LAMBDA i : termes[i][q]), 1))

\* calcul_IM: IM[q] = sum over r of h_r[q] * p_r[q]
calcul_IM(donnees, proba_animaux) ==
    SommeParQuestion(
        Tab(Cardinality(DOMAIN VALEURS_REPONSES), LAMBDA i :
            TermesIM(donner_proba_animaux_sachant_r(VALEURS_REPONSES[i - 1],
                                                    donnees, proba_animaux))),
        Len(donnees))

\* np.argmin replaced by the last index among the minima
ArgMinDernierIndice(IM, libres) ==
    CHOOSE q \in libres :
        \A q2 \in libres : IM[q] < IM[q2] \/ (IM[q] = IM[q2] /\ q >= q2)

\* np.argmin of IM over the questions of libres: the lowest index among the
\* minima
ArgMin(IM, libres) ==
    CHOOSE q \in libres :
        \A q2 \in libres : IM[q] < IM[q2] \/ (IM[q] = IM[q2] /\ q <= q2)

\* choix_meilleure_question with np.argmin(IM): the mask is only used to
\* detect exhaustion
choix_sans_masque(donnees, proba_animaux, questions_pas_encore_posees) ==
    IF \A q \in DOMAIN donnees : ~questions_pas_encore_posees[q]
    THEN 0
    ELSE ArgMin(calcul_IM(donnees, proba_animaux), DOMAIN donnees)

\* choix_meilleure_question: np.argmin(np.where(mask, IM, np.inf)); 0 (None)
\* when no question is left
choix_meilleure_question(donnees, proba_animaux, questions_pas_encore_posees) ==
    IF \A q \in DOMAIN donnees : ~questions_pas_encore_posees[q]
    THEN 0
    ELSE ArgMin(calcul_IM(donnees, proba_animaux),
                {q \in DOMAIN donnees : questions_pas_encore_posees[q]})

\* np.argmax replaced by the last index among the maxima
ArgMaxDernierIndice(proba) ==
    CHOOSE c \in DOMAIN proba.num :
        \A c2 \in DOMAIN proba.num :
            \/ BLess(proba.num[c2], proba.num[c])
            \/ proba.num[c2] = proba.num[c] /\ c >= c2

\* np.argmax(proba_animaux): the lowest index among the maxima
ArgMax(proba) ==
    CHOOSE c \in DOMAIN proba.num :
        \A c2 \in DOMAIN proba.num :
            \/ BLess(proba.num[c2], proba.num[c])
            \/ proba.num[c2] = proba.num[c] /\ c <= c2

\* np.argsort(proba_animaux)[::-1][0]: the highest index among the maxima
Premier(proba) ==
    CHOOSE c \in DOMAIN proba.num :
        \A c2 \in DOMAIN proba.num :
            \/ BLess(proba.num[c2], proba.num[c])
            \/ proba.num[c2] = proba.num[c] /\ c >= c2

\* proba_animaux[i] > SEUIL
DepasseSeuil(proba, i) == BLess(BScale(proba.den, SEUIL), BScale(proba.num[i], UN))

\* lines 280-283: the candidate when its probability is strictly above
\* SEUIL, otherwise 0 (None)
AuDessusDuSeuil(proba_animaux, i_premier) ==
    IF DepasseSeuil(proba_animaux, i_premier) THEN i_premier ELSE 0

\* recherche_bonne_reponse without the test against SEUIL: the most
\* probable candidate is always returned
recherche_sans_seuil(proba_animaux) == Premier(proba_animaux)

\* recherche_bonne_reponse
recherche_bonne_reponse(proba_animaux) ==
    AuDessusDuSeuil(proba_animaux, Premier(proba_animaux))

\* actualisation_valeurs_theoriques with
\* donnees[q, indice_animal] += alpha * VALEURS_REPONSES[reponse]
actualisation_sans_ecart(donnees, indice_animal, reponses_donnees) ==
    Tab(Len(donnees), LAMBDA q :
        Tab(Len(donnees[q]), LAMBDA c :
            IF c = indice_animal /\ q \in DOMAIN reponses_donnees
            THEN ALPHA_INV * donnees[q][c] + VALEURS_REPONSES[reponses_donnees[q]]
            ELSE ALPHA_INV * donnees[q][c]))

\* actualisation_valeurs_theoriques with the update applied to the whole
\* row of every answered question (donnees[question] += ...)
actualisation_toute_la_ligne(donnees, indice_animal, reponses_donnees) ==
    Tab(Len(donnees), LAMBDA q :
        Tab(Len(donnees[q]), LAMBDA c :
            IF q \in DOMAIN reponses_donnees
            THEN ALPHA_INV * donnees[q][c]
                 + (VALEURS_REPONSES[reponses_donnees[q]] - donnees[q][c])
            ELSE ALPHA_INV * donnees[q][c]))

\* actualisation_valeurs_theoriques with alpha=1.5: the step goes past the
\* answer value
actualisation_depasse(donnees, indice_animal, reponses_donnees) ==
    Tab(Len(donnees), LAMBDA q :
        Tab(Len(donnees[q]), LAMBDA c :
            IF c = indice_animal /\ q \in DOMAIN reponses_donnees
            THEN ALPHA_INV * donnees[q][c]
                 + 15 * (VALEURS_REPONSES[reponses_donnees[q]] - donnees[q][c])
            ELSE ALPHA_INV * donnees[q][c]))

\* actualisation_valeurs_theoriques: donnees[q, indice_animal] +=
\* alpha * (VALEURS_REPONSES[reponse] - donnees[q, indice_animal]) for every
\* answered question.  The result is exact, in 1/(UN * ALPHA_INV).
actualisation_valeurs_theoriques(donnees, indice_animal, reponses_donnees) ==
    Tab(Len(donnees), LAMBDA q :
        Tab(Len(donnees[q]), LAMBDA c :
            IF c = indice_animal /\ q \in DOMAIN reponses_donnees
            THEN ALPHA_INV * donnees[q][c]
                 + (VALEURS_REPONSES[reponses_donnees[q]] - donnees[q][c])
            ELSE ALPHA_INV * donnees[q][c]))

\* session["proba_animaux"] += 1e-6
Lisse(proba) ==
    [num |-> Tab(Len(proba.num), LAMBDA c :
                 BAdd(BScale(proba.num[c], EPS_INV), proba.den)),
     den |-> BScale(proba.den, EPS_INV)]

\* session["proba_animaux"] /= np.sum(session["proba_animaux"])
Normalise(proba) == [num |-> proba.num, den |-> BSum(proba.num)]

\* the belief after an answer of value r to question i_question
\* (answer_question, lines 809-816)
MiseAJour(r, donnees, proba, i_question) ==
    Normalise(Lisse(donner_proba_animaux_sachant_r(r, donnees, proba)[i_question].post))

\* proba_animaux of start_session: compteur / sum(compteur)
ProbaInitiale(compteur_apparitions) ==
    [num |-> Tab(Len(compteur_apparitions), LAMBDA c : BNat(compteur_apparitions[c])),
     den |-> BNat(SommeEntiers(compteur_apparitions, 1))]

(***************************************************************************)
(* Persistence (the CSV file on the drive)                                 *)
(***************************************************************************)
\* f"{valeur:.3f}": a value in 1/(UN * ALPHA_INV) written in thousandths.
\* An exact half is written up or down: the float the code formats lies
\* just above or just below it, which the exact arithmetic cannot tell.
Format3f(x, vers_le_haut) ==
    LET reste == x % ALPHA_INV
    IN  x \div ALPHA_INV
        + (IF 2 * reste > ALPHA_INV \/ (2 * reste = ALPHA_INV /\ vers_le_haut)
           THEN 1 ELSE 0)

\* the cells of a matrix in 1/(UN * ALPHA_INV) that lie on an exact half
Demis(donnees) ==
    {qc \in {<<q, c>> : q \in DOMAIN donnees, c \in DOMAIN donnees[1]} :
        2 * (donnees[qc[1]][qc[2]] % ALPHA_INV) = ALPHA_INV}

\* sauvegarde_csv: the content written to the file; donnees in
\* 1/(UN * ALPHA_INV), hauts the halves written upwards
sauvegarde_csv(compteur_apparitions, donnees, hauts) ==
    [compteur_apparitions |-> compteur_apparitions,
     donnees |-> Tab(Len(donnees), LAMBDA q :
                    Tab(Len(donnees[q]), LAMBDA c :
                        Format3f(donnees[q][c], <<q, c>> \in hauts)))]

\* charger_donnees: int() and float() of the cells of the file
charger_donnees(contenu) ==
    [compteur_apparitions |-> contenu.compteur_apparitions,
     donnees |-> contenu.donnees]

(***************************************************************************)
(* Bounds                                                                  *)
(***************************************************************************)
\* sessions started in a run (each gets a fresh uuid)
MaxSessions == 2

\* answers accepted by /answer in a run
MaxReponses == 2

IdSessions == 1..MaxSessions

\* what a caller may send as "reponse": the five indices and two outside
ReponsesEnvoyees == -1..5

(***************************************************************************)
(* State                                                                   *)
(***************************************************************************)
VARIABLES
    fichier,        \* the persisted knowledge base (akinator_animaux.csv)
    suggestions,    \* lines recorded in contenu_a_ajouter.csv
    sessions,       \* the dictionary sessions: id -> session
    nb_sessions,    \* ids handed out so far
    reponse_http,   \* the response of the last request
    \* history of the run, read by the properties only
    nb_reponses,    \* answers accepted so far
    refuses,        \* per id: the candidates a confirm(correct=false) rejected
    nb_refus,       \* per id: confirm(correct=false) calls accepted
    escalade,       \* ids to which need_suggestion was returned
    dernier,        \* per id: kind of the last successful response
    depart,         \* per id: the file content the session was loaded from
    sauvegardes,    \* the successful sauvegarde_csv calls, in order
    appris,         \* the knowledge base in memory after the last learning update
    journal         \* per id: the accepted requests and their responses, in order

vars == <<fichier, suggestions, sessions, nb_sessions, reponse_http,
          nb_reponses, refuses, nb_refus, escalade, dernier, depart,
          sauvegardes, appris, journal>>

histoire == <<nb_reponses, refuses, nb_refus, escalade, dernier, depart,
              sauvegardes, appris, journal>>

\* sessions[id] = session with one belief vector shared by all sessions
\* (a module-level proba_animaux)
EnregistrePartage(id, session) ==
    [s \in DOMAIN sessions \cup {id} |->
        IF s = id THEN session
        ELSE [sessions[s] EXCEPT !.proba_animaux = session.proba_animaux]]

\* sessions[id] = session
Enregistre(id, session) ==
    [s \in DOMAIN sessions \cup {id} |-> IF s = id THEN session ELSE sessions[s]]

\* del sessions[id] left out: the session stays in the dictionary
SupprimeRien(id) == sessions

\* del sessions[id]
Supprime(id) == [s \in DOMAIN sessions \ {id} |-> sessions[s]]

\* reponses_donnees[q] = reponse
Note(reponses_donnees, q, reponse) ==
    [x \in DOMAIN reponses_donnees \cup {q} |->
        IF x = q THEN reponse ELSE reponses_donnees[x]]

\* The response of a request.  op and id say which request of which session
\* a successful response answers; an HTTPException carries its kind only.
Reponse(op, id, statut, question, numero, animal, proba) ==
    [op |-> op, id |-> id, statut |-> statut, question |-> question,
     numero |-> numero, animal |-> animal, proba |-> proba]

\* probabilite=0.0
ProbaNulle == [num |-> << >>, den |-> BNat(1)]

\* a response with a message only
Message(op, id, statut) == Reponse(op, id, statut, 0, 0, 0, ProbaNulle)

\* raise HTTPException(...)
Erreur(statut) == Reponse("", 0, statut, 0, 0, 0, ProbaNulle)

\* GuessResponse(animal=..., probabilite=..., is_final=True)
FinalGuess(op, id, session, i) ==
    Reponse(op, id, "finalGuess", 0, 0, i,
            [num |-> session.proba_animaux.num[i], den |-> session.proba_animaux.den])

\* GuessResponse(is_final=False, question=..., question_number=...)
NextQuestion(op, id, session) ==
    Reponse(op, id, "nextQuestion", session.question_courante,
            session.compteur_question, 0, ProbaNulle)

\* the journal once the request entree of session id has been answered by
\* the response of this step
Inscrit(id, entree) ==
    [journal EXCEPT ![id] =
        Append(@, [entree |-> entree,
                   sortie |-> [statut |-> reponse_http'.statut,
                               question |-> reponse_http'.question,
                               numero |-> reponse_http'.numero,
                               animal |-> reponse_http'.animal,
                               proba |-> reponse_http'.proba]])]

ErreursDeValidation == {"UnknownSession", "InvalidAnswerIndex", "NoGuessPending"}

Init ==
    /\ fichier \in BasesInitiales
    /\ suggestions = 0
    /\ sessions = << >>
    /\ nb_sessions = 0
    /\ reponse_http = Message("", 0, "aucune")
    /\ nb_reponses = 0
    /\ refuses = [id \in IdSessions |-> {}]
    /\ nb_refus = [id \in IdSessions |-> 0]
    /\ escalade = {}
    /\ dernier = [id \in IdSessions |-> "aucune"]
    /\ depart = [id \in IdSessions |-> << >>]
    /\ sauvegardes = << >>
    /\ appris = << >>
    /\ journal = [id \in IdSessions |-> << >>]

(***************************************************************************)
(* POST /start                                                             *)
(***************************************************************************)
\* lines 767-785: the session start_session stores, with its first
\* question.  Every knowledge base of the model has a question, so
\* choix_meilleure_question does not return None here.
SessionInitiale(kb, proba_animaux, questions_pas_encore_posees) ==
    [compteur_apparitions |-> kb.compteur_apparitions,
     donnees |-> kb.donnees,
     proba_animaux |-> proba_animaux,
     reponses_donnees |-> << >>,
     questions_pas_encore_posees |-> questions_pas_encore_posees,
     compteur_question |-> 1,
     echecs_consecutifs |-> 0,
     question_courante |->
         choix_meilleure_question(kb.donnees, proba_animaux,
                                  questions_pas_encore_posees),
     animal_propose |-> 0]

\* start_session with a first question that depends on how many sessions
\* the process has served (state kept across sessions)
NouvelleSessionSelonRang(kb) ==
    [SessionInitiale(kb, ProbaInitiale(kb.compteur_apparitions),
                     Tab(Len(kb.donnees), LAMBDA q : TRUE))
        EXCEPT !.question_courante = 1 + (nb_sessions % Len(kb.donnees))]

\* lines 764-785
NouvelleSession(kb) ==
    SessionInitiale(kb, ProbaInitiale(kb.compteur_apparitions),
                    Tab(Len(kb.donnees), LAMBDA q : TRUE))

\* lines 767-792: the session is stored and its first question returned
SessionDemarree(id, session) ==
    /\ sessions' = Enregistre(id, session)
    /\ nb_sessions' = id
    /\ reponse_http' = Reponse("start", id, "question",
                               session.question_courante, 1, 0, ProbaNulle)
    /\ dernier' = [dernier EXCEPT ![id] = "question"]
    /\ depart' = [depart EXCEPT ![id] = fichier]
    /\ journal' = Inscrit(id, <<"start">>)

\* charger_donnees raises (the download fails), or the counters sum to 0
\* and val / apparitions_totales raises: no session is stored.
StartSession(chargement_ok) ==
    /\ nb_sessions < MaxSessions
    /\ IF ~chargement_ok
          \/ SommeEntiers(charger_donnees(fichier).compteur_apparitions, 1) = 0
       THEN /\ reponse_http' = Erreur("DataUnavailable")
            /\ UNCHANGED <<sessions, nb_sessions, dernier, depart, journal>>
       ELSE SessionDemarree(nb_sessions + 1,
                            NouvelleSession(charger_donnees(fichier)))
    /\ UNCHANGED <<fichier, suggestions, nb_reponses, refuses, nb_refus,
                   escalade, sauvegardes, appris>>

(***************************************************************************)
(* POST /answer                                                            *)
(***************************************************************************)
\* lines 806-816 without line 807: the answer is recorded and the belief
\* updated, but the question is not marked as asked
ActualiseSansMarque(session, reponse) ==
    [session EXCEPT
        !.reponses_donnees = Note(@, session.question_courante, reponse),
        !.proba_animaux = MiseAJour(VALEURS_REPONSES[reponse], session.donnees,
                                    @, session.question_courante)]

\* lines 806-816: the answer is recorded, the question marked as asked,
\* the belief updated
Actualise(session, reponse) ==
    [session EXCEPT
        !.reponses_donnees = Note(@, session.question_courante, reponse),
        !.questions_pas_encore_posees[session.question_courante] = FALSE,
        !.proba_animaux = MiseAJour(VALEURS_REPONSES[reponse], session.donnees,
                                    @, session.question_courante)]

\* lines 834-852 and 903-921: the forced guess when no question is left
\* (i_question is None), the next question otherwise
QuestionOuProposition(s1, i_question) ==
    IF i_question = 0
    THEN [session |-> [s1 EXCEPT !.animal_propose = ArgMax(s1.proba_animaux)],
          statut |-> "finalGuess"]
    ELSE [session |-> [s1 EXCEPT !.question_courante = i_question,
                                 !.compteur_question = @ + 1],
          statut |-> "nextQuestion"]

\* lines 828-852 and 897-921
Poursuit(s1) ==
    QuestionOuProposition(s1,
        choix_meilleure_question(s1.donnees, s1.proba_animaux,
                                 s1.questions_pas_encore_posees))

\* lines 820-852: the guess above the threshold, if any
Propose(s1, indice_meilleur_animal) ==
    IF indice_meilleur_animal # 0
    THEN [session |-> [s1 EXCEPT !.animal_propose = indice_meilleur_animal],
          statut |-> "finalGuess"]
    ELSE Poursuit(s1)

\* lines 818-852
Decide(s1) == Propose(s1, recherche_bonne_reponse(s1.proba_animaux))

\* lines 806-852: the session after an accepted answer, and the kind of the
\* response
ApresReponse(session, reponse) == Decide(Actualise(session, reponse))

\* the session is stored and the response built (GuessResponse, or the
\* message of need_suggestion)
Repond(op, id, apres) ==
    /\ sessions' = Enregistre(id, apres.session)
    /\ reponse_http' =
         IF apres.statut = "finalGuess"
         THEN FinalGuess(op, id, apres.session, apres.session.animal_propose)
         ELSE IF apres.statut = "nextQuestion"
         THEN NextQuestion(op, id, apres.session)
         ELSE Message(op, id, apres.statut)
    /\ dernier' = [dernier EXCEPT ![id] = apres.statut]
    /\ escalade' = IF apres.statut = "suggestionRequired"
                   THEN escalade \cup {id} ELSE escalade

\* lines 797-798: the session id is not in sessions
SessionInconnue ==
    /\ reponse_http' = Erreur("UnknownSession")
    /\ UNCHANGED <<fichier, suggestions, sessions, nb_sessions>>
    /\ UNCHANGED histoire

\* lines 803-804 placed after line 807: the question is marked as asked
\* before the index is checked
ReponseInvalideNotee(id) ==
    /\ reponse_http' = Erreur("InvalidAnswerIndex")
    /\ sessions' = Enregistre(id,
          [sessions[id] EXCEPT
              !.questions_pas_encore_posees[sessions[id].question_courante] = FALSE])
    /\ UNCHANGED <<fichier, suggestions, nb_sessions>>
    /\ UNCHANGED histoire

\* lines 803-804: the index is outside VALEURS_REPONSES; nothing has been
\* written to the session yet
ReponseInvalide(id) ==
    /\ reponse_http' = Erreur("InvalidAnswerIndex")
    /\ UNCHANGED <<fichier, suggestions, sessions, nb_sessions>>
    /\ UNCHANGED histoire

\* lines 806-852
ReponseAcceptee(id, reponse) ==
    /\ nb_reponses < MaxReponses
    /\ Repond("answer", id, ApresReponse(sessions[id], reponse))
    /\ nb_reponses' = nb_reponses + 1
    /\ journal' = Inscrit(id, <<"answer", reponse>>)
    /\ UNCHANGED <<fichier, suggestions, nb_sessions, refuses, nb_refus,
                   depart, sauvegardes, appris>>

AnswerQuestion(id, reponse) ==
    IF id \notin DOMAIN sessions THEN SessionInconnue
    ELSE IF reponse \notin DOMAIN VALEURS_REPONSES THEN ReponseInvalide(id)
    ELSE ReponseAcceptee(id, reponse)

(***************************************************************************)
(* POST /confirm                                                           *)
(***************************************************************************)
\* lines 885-887: the failure is counted, the candidate gets probability 0
\* and is no longer proposed
Refuse(session) ==
    [session EXCEPT
        !.echecs_consecutifs = @ + 1,
        !.proba_animaux.num[session.animal_propose] = << >>,
        !.animal_propose = 0]

\* lines 890-921
Escalade(s1) ==
    IF s1.echecs_consecutifs >= MAX_ECHECS
    THEN [session |-> s1, statut |-> "suggestionRequired"]
    ELSE Poursuit(s1)

\* lines 884-921: the session after confirm(correct=false), and the kind of
\* the response
ApresRefus(session) == Escalade(Refuse(session))

\* lines 866-872: the knowledge base of the session after the learning
\* update, donnees in 1/(UN * ALPHA_INV)
Apprentissage(session) ==
    [compteur_apparitions |->
        [session.compteur_apparitions EXCEPT ![session.animal_propose] = @ + 1],
     donnees |-> actualisation_valeurs_theoriques(session.donnees,
                     session.animal_propose, session.reponses_donnees)]

\* lines 862-863: no animal_propose in the session
AucunePropositon(id) ==
    /\ reponse_http' = Erreur("NoGuessPending")
    /\ UNCHANGED <<fichier, suggestions, sessions, nb_sessions>>
    /\ UNCHANGED histoire

\* lines 874-882: the knowledge base kb of the session is saved and the
\* session deleted.  sauvegarde_csv swallows a failed upload.
Sauvegarde(id, sauvegarde_ok, kb) ==
    /\ appris' = kb
    /\ IF sauvegarde_ok
       THEN \E hauts \in SUBSET Demis(kb.donnees) :
              /\ fichier' = sauvegarde_csv(kb.compteur_apparitions,
                                           kb.donnees, hauts)
              /\ sauvegardes' = Append(sauvegardes,
                    [id |-> id,
                     animal |-> sessions[id].animal_propose,
                     reponses |-> sessions[id].reponses_donnees,
                     ecrit |-> fichier'])
       ELSE UNCHANGED <<fichier, sauvegardes>>
    /\ sessions' = Supprime(id)
    /\ reponse_http' = Message("confirm", id, "confirmed")
    /\ journal' = Inscrit(id, <<"confirm", TRUE>>)
    /\ dernier' = [dernier EXCEPT ![id] = "confirmed"]
    /\ UNCHANGED <<suggestions, nb_sessions, nb_reponses, refuses,
                   nb_refus, escalade, depart>>

\* lines 865-882: confirm(correct=true)
ConfirmCorrect(id, sauvegarde_ok) ==
    Sauvegarde(id, sauvegarde_ok, Apprentissage(sessions[id]))

\* lines 883-921, except for the file
RefusTraite(id) ==
    /\ Repond("confirm", id, ApresRefus(sessions[id]))
    /\ refuses' = [refuses EXCEPT ![id] = @ \cup {sessions[id].animal_propose}]
    /\ nb_refus' = [nb_refus EXCEPT ![id] = @ + 1]
    /\ journal' = Inscrit(id, <<"confirm", FALSE>>)
    /\ UNCHANGED <<suggestions, nb_sessions, nb_reponses,
                   depart, sauvegardes, appris>>

\* lines 883-921 with sauvegarde_csv called on this branch too: the
\* knowledge base of the session is written back unchanged
ConfirmIncorrectSauvegarde(id) ==
    /\ RefusTraite(id)
    /\ fichier' = [compteur_apparitions |-> sessions[id].compteur_apparitions,
                   donnees |-> sessions[id].donnees]

\* lines 883-921: confirm(correct=false)
ConfirmIncorrect(id) ==
    /\ RefusTraite(id)
    /\ UNCHANGED fichier

ConfirmGuess(id, correct, sauvegarde_ok) ==
    IF id \notin DOMAIN sessions THEN SessionInconnue
    ELSE IF sessions[id].animal_propose = 0 THEN AucunePropositon(id)
    ELSE IF correct THEN ConfirmCorrect(id, sauvegarde_ok)
    ELSE ConfirmIncorrect(id)

(***************************************************************************)
(* POST /suggest                                                           *)
(***************************************************************************)
\* submit_suggestion with a failed recording treated as fatal: the error
\* is returned before del sessions[id], and the session lives on
SuggestionOuErreur(id, success) ==
    /\ suggestions' = IF success THEN suggestions + 1 ELSE suggestions
    /\ sessions' = IF success THEN Supprime(id) ELSE sessions
    /\ reponse_http' = IF success THEN Message("suggest", id, "acknowledgement")
                       ELSE Erreur("RecordFailed")
    /\ journal' = IF success THEN Inscrit(id, <<"suggest">>) ELSE journal
    /\ dernier' = IF success THEN [dernier EXCEPT ![id] = "acknowledgement"]
                  ELSE dernier
    /\ UNCHANGED <<fichier, nb_sessions, nb_reponses, refuses, nb_refus,
                   escalade, depart, sauvegardes, appris>>

\* lines 928-943: sauvegarder_suggestion returns True when the line was
\* uploaded; the session is deleted in both cases
SuggestionRecue(id, success) ==
    /\ suggestions' = IF success THEN suggestions + 1 ELSE suggestions
    /\ sessions' = Supprime(id)
    /\ reponse_http' = Message("suggest", id, "acknowledgement")
    /\ journal' = Inscrit(id, <<"suggest">>)
    /\ dernier' = [dernier EXCEPT ![id] = "acknowledgement"]
    /\ UNCHANGED <<fichier, nb_sessions, nb_reponses, refuses, nb_refus,
                   escalade, depart, sauvegardes, appris>>

SubmitSuggestion(id, success) ==
    IF id \notin DOMAIN sessions THEN SessionInconnue
    ELSE SuggestionRecue(id, success)

Next ==
    \/ \E chargement_ok \in BOOLEAN : StartSession(chargement_ok)
    \/ \E id \in IdSessions, reponse \in ReponsesEnvoyees : AnswerQuestion(id, reponse)
    \/ \E id \in IdSessions, correct \in BOOLEAN, sauvegarde_ok \in BOOLEAN :
          ConfirmGuess(id, correct, sauvegarde_ok)
    \/ \E id \in IdSessions, success \in BOOLEAN : SubmitSuggestion(id, success)

Spec == Init /\ [][Next]_vars

(***************************************************************************)
(* Properties                                                              *)
(***************************************************************************)
\* the probabilities of a belief vector sum to 1 and are all positive
EstDistribution(proba) ==
    /\ BSum(proba.num) = proba.den
    /\ \A c \in 1..Len(proba.num) : proba.num[c] # << >>

\* C1: in every session state (after begin, after every submitAnswer, after
\* every confirm(correct=false)) the belief vector sums to 1 and every
\* component is strictly positive.
C1_BeliefIsDistribution ==
    \A id \in DOMAIN sessions : EstDistribution(sessions[id].proba_animaux)

\* the counter of candidate c after the learning updates of the saves i and j
\* on top of the knowledge base kb
CompteurAttendu(kb, i, j, c) ==
    kb.compteur_apparitions[c]
    + (IF sauvegardes[i].animal = c THEN 1 ELSE 0)
    + (IF sauvegardes[j].animal = c THEN 1 ELSE 0)

\* the cells of the matrix the learning update of save i touched
Touchees(i) == {<<q, sauvegardes[i].animal>> : q \in DOMAIN sauvegardes[i].reponses}

\* C2: no learning update is lost when sessions overlap: when two sessions
\* loaded from the same file content have both confirmed a correct guess
\* and written the file, the file holds both counter increments, and every
\* cell only one of them updated holds that update.
C2_NoLostUpdate ==
    \A i, j \in DOMAIN sauvegardes :
        (/\ i < j
         /\ j = Len(sauvegardes)
         /\ depart[sauvegardes[i].id] = depart[sauvegardes[j].id])
        => LET kb == depart[sauvegardes[i].id]
           IN  /\ \A c \in 1..NbAnimaux(kb) :
                     fichier.compteur_apparitions[c] = CompteurAttendu(kb, i, j, c)
               /\ \A qc \in Touchees(i) \ Touchees(j) :
                     fichier.donnees[qc[1]][qc[2]]
                       = sauvegardes[i].ecrit.donnees[qc[1]][qc[2]]

\* the last response answers an accepted confirm(correct=false)
RefusAccepte ==
    /\ reponse_http.op = "confirm"
    /\ reponse_http.statut \in {"suggestionRequired", "nextQuestion", "finalGuess"}

\* C3: confirm(correct=false) returns suggestionRequired if and only if the
\* call is the third rejected guess of the session.
C3_SuggestionExactlyAtThirdRejection ==
    RefusAccepte =>
        (reponse_http.statut = "suggestionRequired"
            <=> nb_refus[reponse_http.id] = MAX_ECHECS)

\* C4: once suggestionRequired was returned to a session, the only request
\* of that session that still succeeds is contributeSuggestion: no later
\* response is a finalGuess or a nextQuestion.
C4_NoGuessAfterSuggestionRequired ==
    (reponse_http.op # "" /\ reponse_http.id \in escalade)
        => \/ reponse_http.statut = "acknowledgement"
           \/ /\ reponse_http.statut = "suggestionRequired"
              /\ nb_refus[reponse_http.id] = MAX_ECHECS

\* C5: no finalGuess of a session names a candidate that a
\* confirm(correct=false) of that session rejected before.
C5_RejectedCandidateExcluded ==
    reponse_http.statut = "finalGuess"
        => reponse_http.animal \notin refuses[reponse_http.id]

\* a question marked as asked stays marked, in every session that lives on
MasqueMonotone ==
    \A id \in DOMAIN sessions \cap DOMAIN sessions' :
        \A q \in 1..Len(sessions[id].donnees) :
            ~sessions[id].questions_pas_encore_posees[q]
                => ~sessions'[id].questions_pas_encore_posees[q]

\* the question a response carries, if any, is not marked as asked
QuestionRenvoyeeLibre ==
    reponse_http.statut \in {"question", "nextQuestion"}
        => sessions[reponse_http.id].questions_pas_encore_posees[reponse_http.question]

\* C6: the AskedSet of a session only grows, and every question returned by
\* begin, submitAnswer or confirm is not in the AskedSet at that moment.
C6_AskedSetGrowsAndNextIsUnasked ==
    [][MasqueMonotone /\ QuestionRenvoyeeLibre']_vars

\* a next question was chosen while a question was already asked
C6_Witness ==
    /\ reponse_http.statut = "nextQuestion"
    /\ \E q \in 1..Len(sessions[reponse_http.id].donnees) :
          ~sessions[reponse_http.id].questions_pas_encore_posees[q]

\* C7: confirm is accepted only when the most recent successful response of
\* the session was a finalGuess.
C7_ConfirmOnlyAfterFinalGuess ==
    [][reponse_http'.op = "confirm"
          => dernier[reponse_http'.id] = "finalGuess"]_vars

\* C8: a call rejected with a validation error leaves every session as it
\* was (belief, asked set, answer history, failure counter, current question,
\* pending guess), and the registry of sessions too.
C8_RejectedCallChangesNothing ==
    [][reponse_http'.statut \in ErreursDeValidation => sessions' = sessions]_vars

\* a call was rejected while a session with an answered question was alive
C8_Witness ==
    /\ reponse_http.statut \in {"InvalidAnswerIndex", "NoGuessPending"}
    /\ \E id \in DOMAIN sessions : sessions[id].reponses_donnees # << >>

\* C9: only a successful confirm(correct=true) changes the persisted
\* knowledge base.
C9_OnlyConfirmChangesFile ==
    [][fichier' # fichier => reponse_http'.statut = "confirmed"]_vars

\* the file was rewritten by a learning update, and a session loaded before
\* that has since been answered, rejected, escalated or ended by a suggestion
C9_Witness ==
    /\ sauvegardes # << >>
    /\ fichier # depart[sauvegardes[1].id]
    /\ reponse_http.statut \in {"nextQuestion", "finalGuess",
                                "suggestionRequired", "acknowledgement"}
    /\ depart[reponse_http.id] # fichier

\* a knowledge base whose cells lie in [0, unite] and whose counters are >= 0
BaseValide(kb, unite) ==
    /\ \A q \in 1..Len(kb.donnees) : \A c \in 1..Len(kb.donnees[q]) :
          0 <= kb.donnees[q][c] /\ kb.donnees[q][c] <= unite
    /\ \A c \in 1..Len(kb.compteur_apparitions) : kb.compteur_apparitions[c] >= 0

\* C10: every cell of the matrix stays within [0,1] and every appearance
\* counter stays non-negative: in the file, in the copy of every session, and
\* in memory right after a learning update.
C10_KnowledgeBaseInRange ==
    /\ BaseValide(fichier, UN)
    /\ \A id \in DOMAIN sessions : BaseValide(sessions[id], UN)
    /\ appris # << >> => BaseValide(appris, UN * ALPHA_INV)

\* a learning update moved a cell of the persisted matrix
C10_Witness ==
    /\ sauvegardes # << >>
    /\ fichier = sauvegardes[Len(sauvegardes)].ecrit
    /\ fichier.donnees # depart[sauvegardes[Len(sauvegardes)].id].donnees

\* the cell (q, c) is outside the learning update of a session s: c is not
\* the confirmed candidate, or q has no answer in the history
HorsApprentissage(s, q, c) ==
    c # s.animal_propose \/ q \notin DOMAIN s.reponses_donnees

\* C11: the learning update of confirm(correct=true) with winning candidate
\* w changes only the cells D[q][w] of the answered questions q and only the
\* counter of w, which goes up by exactly 1; every other cell and counter is
\* as it was, in memory and in what is written to the file.
C11_LearningTouchesOnlyAnsweredCellsOfWinner ==
    [][reponse_http'.statut = "confirmed" =>
          LET s == sessions[reponse_http'.id]
          IN  /\ \A c \in 1..Len(s.compteur_apparitions) :
                    appris'.compteur_apparitions[c]
                      = s.compteur_apparitions[c]
                        + (IF c = s.animal_propose THEN 1 ELSE 0)
              /\ \A q \in 1..Len(s.donnees) : \A c \in 1..Len(s.donnees[q]) :
                    HorsApprentissage(s, q, c)
                        => appris'.donnees[q][c] = ALPHA_INV * s.donnees[q][c]
              /\ fichier' # fichier =>
                    /\ fichier'.compteur_apparitions = appris'.compteur_apparitions
                    /\ \A q \in 1..Len(s.donnees) : \A c \in 1..Len(s.donnees[q]) :
                          HorsApprentissage(s, q, c)
                              => fichier'.donnees[q][c] = s.donnees[q][c]]_vars

\* a guess was confirmed and saved in a session that had answered some of
\* the questions and not others, and a cell of the winner moved
C11_Witness ==
    /\ reponse_http.statut = "confirmed"
    /\ sauvegardes # << >>
    /\ sauvegardes[Len(sauvegardes)].id = reponse_http.id
    /\ fichier = sauvegardes[Len(sauvegardes)].ecrit
    /\ DOMAIN sauvegardes[Len(sauvegardes)].reponses # {}
    /\ DOMAIN sauvegardes[Len(sauvegardes)].reponses # DOMAIN fichier.donnees
    /\ \E q \in DOMAIN sauvegardes[Len(sauvegardes)].reponses :
          appris.donnees[q][sauvegardes[Len(sauvegardes)].animal]
            # ALPHA_INV * depart[reponse_http.id].donnees[q][sauvegardes[Len(sauvegardes)].animal]

\* x lies between a and b (either order)
Entre(x, a, b) == (a <= x /\ x <= b) \/ (b <= x /\ x <= a)

\* C12: for every answered question q and winning candidate w the learning
\* update sets D[q][w] to D[q][w] + 0.1 * (answerValue - D[q][w]); the new
\* value, in memory and as written to the file, lies between the old value
\* and the answer value, so that repeating the confirmation moves the cell
\* toward the answer value without crossing it.
C12_LearningStepTowardAnswerValue ==
    [][reponse_http'.statut = "confirmed" =>
          LET s == sessions[reponse_http'.id]
              w == s.animal_propose
          IN  \A q \in DOMAIN s.reponses_donnees :
                /\ appris'.donnees[q][w] - ALPHA_INV * s.donnees[q][w]
                     = VALEURS_REPONSES[s.reponses_donnees[q]] - s.donnees[q][w]
                /\ Entre(appris'.donnees[q][w], ALPHA_INV * s.donnees[q][w],
                         ALPHA_INV * VALEURS_REPONSES[s.reponses_donnees[q]])
                /\ fichier' # fichier =>
                      Entre(fichier'.donnees[q][w], s.donnees[q][w],
                            VALEURS_REPONSES[s.reponses_donnees[q]])]_vars

\* the same candidate was confirmed twice with the same answers, the second
\* session loaded from what the first one saved, and a cell moved both times
C12_Witness ==
    /\ Len(sauvegardes) = 2
    /\ sauvegardes[1].animal = sauvegardes[2].animal
    /\ sauvegardes[1].reponses = sauvegardes[2].reponses
    /\ depart[sauvegardes[2].id] = sauvegardes[1].ecrit
    /\ \E q \in DOMAIN sauvegardes[1].reponses :
          LET w == sauvegardes[1].animal
              d0 == depart[sauvegardes[1].id].donnees[q][w]
              d1 == sauvegardes[1].ecrit.donnees[q][w]
              d2 == sauvegardes[2].ecrit.donnees[q][w]
          IN  (d0 < d1 /\ d1 < d2) \/ (d0 > d1 /\ d1 > d2)

\* the first k requests of the sessions i and j are the same
MemesEntrees(i, j, k) ==
    \A m \in 1..k : journal[i][m].entree = journal[j][m].entree

\* C13: the engine is deterministic: two sessions loaded from the same
\* knowledge base and given the same answers and confirmations get the same
\* questions and the same guesses, response by response.
C13_Deterministic ==
    \A i, j \in IdSessions :
        (i < j /\ journal[i] # << >> /\ journal[j] # << >>
           /\ depart[i] = depart[j])
        => \A k \in 1..Len(journal[i]) :
              (k <= Len(journal[j]) /\ MemesEntrees(i, j, k))
                  => journal[i][k].sortie = journal[j][k].sortie

\* two sessions loaded from the same knowledge base were given the same
\* answer and the same rejection, after which each got a response
C13_Witness ==
    /\ Len(journal[1]) >= 3
    /\ Len(journal[2]) >= 3
    /\ depart[1] = depart[2]
    /\ MemesEntrees(1, 2, 3)
    /\ journal[1][2].entree[1] = "answer"
    /\ journal[1][3].entree = <<"confirm", FALSE>>

\* the last response is a guess that no threshold justifies: it follows a
\* rejection, or no candidate of the belief is above SEUIL
PropositionForcee ==
    /\ reponse_http.statut = "finalGuess"
    /\ \/ reponse_http.op = "confirm"
       \/ \A c \in DOMAIN sessions[reponse_http.id].proba_animaux.num :
             ~DepasseSeuil(sessions[reponse_http.id].proba_animaux, c)

\* C14: a forced guess is made only when no unasked question remains; it
\* names the candidate with the largest P, the lowest index among the
\* candidates tied for the maximum, with that P as confidence.
C14_ForcedGuessIsFirstArgMax ==
    PropositionForcee =>
        LET s == sessions[reponse_http.id]
            P == s.proba_animaux
            a == reponse_http.animal
        IN  /\ \A q \in DOMAIN s.questions_pas_encore_posees :
                  ~s.questions_pas_encore_posees[q]
            /\ \A c \in DOMAIN P.num : BLeq(P.num[c], P.num[a])
            /\ \A c \in DOMAIN P.num : c < a => BLess(P.num[c], P.num[a])
            /\ reponse_http.proba = [num |-> P.num[a], den |-> P.den]

\* an answer exhausted the questions with two candidates tied for the
\* maximum below the threshold, and a guess was forced
C14_Witness ==
    /\ PropositionForcee
    /\ reponse_http.op = "answer"
    /\ \E c \in DOMAIN sessions[reponse_http.id].proba_animaux.num :
          /\ c # reponse_http.animal
          /\ sessions[reponse_http.id].proba_animaux.num[c]
               = sessions[reponse_http.id].proba_animaux.num[reponse_http.animal]

\* the knowledge base kb holds the learning update appris: the counters,
\* and every cell up to the three decimals of the file
DetientApprentissage(kb) ==
    /\ kb.compteur_apparitions = appris.compteur_apparitions
    /\ \A q \in 1..Len(kb.donnees) : \A c \in 1..Len(kb.donnees[q]) :
          Entre(kb.donnees[q][c], Format3f(appris.donnees[q][c], FALSE),
                Format3f(appris.donnees[q][c], TRUE))

Terminee(id) == dernier[id] \in {"confirmed", "acknowledgement"}

\* the step is a request (submitAnswer, confirm or contributeSuggestion) on
\* the session id
RequeteSur(id) ==
    \/ \E reponse \in ReponsesEnvoyees : AnswerQuestion(id, reponse)
    \/ \E correct \in BOOLEAN, sauvegarde_ok \in BOOLEAN :
          ConfirmGuess(id, correct, sauvegarde_ok)
    \/ \E success \in BOOLEAN : SubmitSuggestion(id, success)

\* C16: once confirm(correct=true) or contributeSuggestion has returned for
\* a session id, the session is gone for good and every further
\* submitAnswer, confirm or contributeSuggestion on that id is rejected with
\* UnknownSession.
C16_TerminatedSessionIsUnknown ==
    [][\A id \in IdSessions :
          Terminee(id) =>
              /\ id \notin DOMAIN sessions
              /\ id \notin DOMAIN sessions'
              /\ RequeteSur(id) => reponse_http'.statut = "UnknownSession"]_vars

\* every session id was used, one session ended by a confirmed guess and
\* one by a suggestion, and a further request was rejected as unknown
C16_Witness ==
    /\ nb_sessions = MaxSessions
    /\ \A id \in IdSessions : Terminee(id)
    /\ \E id \in IdSessions : dernier[id] = "confirmed"
    /\ \E id \in IdSessions : dernier[id] = "acknowledgement"
    /\ reponse_http.statut = "UnknownSession"

\* C17: sessions are isolated: a request on one session leaves every other
\* session in the dictionary, with the same belief vector, AskedSet, answer
\* history, failure counter, current question and pending guess.
C17_SessionsIsolated ==
    [][\A i \in DOMAIN sessions :
          i # reponse_http'.id
              => i \in DOMAIN sessions' /\ sessions'[i] = sessions[i]]_vars

\* two sessions are running, each has answered a question, and the first
\* one has just had a guess rejected, after the second one answered
C17_Witness ==
    /\ DOMAIN sessions = {1, 2}
    /\ sessions[1].reponses_donnees # << >>
    /\ sessions[2].reponses_donnees # << >>
    /\ reponse_http.id = 1
    /\ reponse_http.op = "confirm"
    /\ dernier[2] \in {"finalGuess", "nextQuestion"}

\* a * BASE^n
BShift(a, n) == IF a = << >> THEN << >> ELSE Tab(n, LAMBDA i : 0) \o a

RECURSIVE BMulFrom(_, _, _)
BMulFrom(a, b, i) ==
    IF i > Len(b) THEN << >>
    ELSE BAdd(BShift(BScale(a, b[i]), i - 1), BMulFrom(a, b, i + 1))

\* a * b
BMul(a, b) == BMulFrom(a, b, 1)

\* the step is an accepted submitAnswer of the session id
ReponseAccepteeDe(id) ==
    /\ reponse_http'.op = "answer"
    /\ reponse_http'.id = id
    /\ journal' # journal

\* max(1 - |r - D[q][c]|, 0.05) * P[c] for the answer the step records, as
\* a numerator over 1000 * P.den
Pondere(id, c) ==
    LET s == sessions[id]
        q == s.question_courante
        r == VALEURS_REPONSES[sessions'[id].reponses_donnees[q]]
        ecart == IF r >= s.donnees[q][c] THEN r - s.donnees[q][c]
                 ELSE s.donnees[q][c] - r
    IN  BScale(s.proba_animaux.num[c],
               IF 1000 - ecart >= 50 THEN 1000 - ecart ELSE 50)

\* the distance |r - D[q][c]| for the answer the step records
Ecart(id, c) ==
    LET s == sessions[id]
        q == s.question_courante
        r == VALEURS_REPONSES[sessions'[id].reponses_donnees[q]]
    IN  IF r >= s.donnees[q][c] THEN r - s.donnees[q][c]
        ELSE s.donnees[q][c] - r

\* the new belief is proportional to (Pondere / sum of Pondere) + 1e-6 and
\* sums to 1
ProportionnelAuPosterieurLisse(id) ==
    LET C == DOMAIN sessions[id].proba_animaux.num
        S == BSum(Tab(Cardinality(C), LAMBDA c : Pondere(id, c)))
        N == sessions'[id].proba_animaux
    IN  /\ N.den = BSum(N.num)
        /\ \A c1, c2 \in C :
              BMul(N.num[c1], BAdd(BScale(Pondere(id, c2), 1000000), S))
                = BMul(N.num[c2], BAdd(BScale(Pondere(id, c1), 1000000), S))

\* new[c1] / new[c2] >= old[c1] / old[c2] whenever c1 is closer to the
\* answer than c2
PlusProcheNePerdPas(id) ==
    LET P == sessions[id].proba_animaux
        N == sessions'[id].proba_animaux
    IN  \A c1, c2 \in DOMAIN P.num :
            Ecart(id, c1) < Ecart(id, c2)
                => BLeq(BMul(N.num[c2], P.num[c1]), BMul(N.num[c1], P.num[c2]))

\* C18: after submitAnswer with answer value r to question q the new belief
\* is proportional to max(1 - |r - D[q][c]|, 0.05) * P[c] normalised, plus
\* 1e-6 per candidate, renormalised; and a candidate whose expected answer
\* is closer to r never loses belief relative to one whose expected answer
\* is farther from r.
C18_BeliefUpdateFavoursCloser ==
    [][\A id \in DOMAIN sessions :
          ReponseAccepteeDe(id)
              => ProportionnelAuPosterieurLisse(id) /\ PlusProcheNePerdPas(id)]_vars

\* the questions of the session s not yet marked as asked
NonPosees(s) ==
    {q \in DOMAIN s.questions_pas_encore_posees : s.questions_pas_encore_posees[q]}

\* the last response carries a question the selector chose
QuestionChoisie == reponse_http.statut \in {"question", "nextQuestion"}

\* C19: the question the selector returns is unasked and has the smallest
\* expected entropy IM among the unasked questions, the lowest index among
\* those tied for the minimum, whatever the IM of the asked questions; and
\* the selector signals exhaustion (a guess is forced) only when no unasked
\* question remains.
C19_SelectorPicksFirstMinimumUnasked ==
    /\ QuestionChoisie =>
          LET s == sessions[reponse_http.id]
              IM == calcul_IM(s.donnees, s.proba_animaux)
              q == reponse_http.question
          IN  /\ q = s.question_courante
              /\ q \in NonPosees(s)
              /\ \A q2 \in NonPosees(s) : IM[q] <= IM[q2]
              /\ \A q2 \in NonPosees(s) : q2 < q => IM[q] < IM[q2]
    /\ PropositionForcee => NonPosees(sessions[reponse_http.id]) = {}

\* a question was chosen among two unasked questions tied for the minimum
C19_Witness ==
    /\ QuestionChoisie
    /\ \E q2 \in NonPosees(sessions[reponse_http.id]) :
          /\ q2 # reponse_http.question
          /\ calcul_IM(sessions[reponse_http.id].donnees,
                       sessions[reponse_http.id].proba_animaux)[q2]
               = calcul_IM(sessions[reponse_http.id].donnees,
                           sessions[reponse_http.id].proba_animaux)[reponse_http.question]

\* P[c] > 0.7 in the belief P
AuDessusDe07(P, c) == BLess(BScale(P.den, 7), BScale(P.num[c], 10))

\* C20: an accepted submitAnswer returns a finalGuess if and only if, after
\* the belief update, some P[c] is strictly greater than 0.7 or no unasked
\* question remains, and a nextQuestion otherwise; when the threshold is met
\* the guess names the candidate with the largest P, with that P as
\* confidence.
C20_GuessIffThresholdOrExhausted ==
    (reponse_http.op = "answer") =>
        LET s == sessions[reponse_http.id]
            P == s.proba_animaux
            seuil == \E c \in DOMAIN P.num : AuDessusDe07(P, c)
        IN  /\ reponse_http.statut \in {"finalGuess", "nextQuestion"}
            /\ reponse_http.statut = "finalGuess"
                  <=> (seuil \/ NonPosees(s) = {})
            /\ seuil =>
                  /\ AuDessusDe07(P, reponse_http.animal)
                  /\ \A c \in DOMAIN P.num :
                        BLeq(P.num[c], P.num[reponse_http.animal])
                  /\ reponse_http.proba
                       = [num |-> P.num[reponse_http.animal], den |-> P.den]

\* an answer left the most probable candidate between 0.5 and 0.7 with a
\* question still unasked, and the next question was returned
C20_Witness ==
    /\ reponse_http.op = "answer"
    /\ reponse_http.statut = "nextQuestion"
    /\ \E c \in DOMAIN sessions[reponse_http.id].proba_animaux.num :
          BLess(sessions[reponse_http.id].proba_animaux.den,
                BScale(sessions[reponse_http.id].proba_animaux.num[c], 2))

\* the belief P with candidate c removed
SansCandidat(P, c) == [P EXCEPT !.num[c] = << >>]

\* the response of this step answers the first or second accepted
\* confirm(correct=false) of its session
PremierOuSecondRefus ==
    /\ reponse_http'.op = "confirm"
    /\ reponse_http'.statut # "confirmed"
    /\ nb_refus'[reponse_http'.id] = nb_refus[reponse_http'.id] + 1
    /\ nb_refus'[reponse_http'.id] <= 2

\* the failure counter of session id has increased by exactly 1
EchecCompte(id) ==
    sessions'[id].echecs_consecutifs = sessions[id].echecs_consecutifs + 1

\* an unasked question remains: the response is the nextQuestion a selector
\* call on the reduced belief chooses, and no guess is pending
QuestionApresRefus(id) ==
    /\ reponse_http'.statut = "nextQuestion"
    /\ reponse_http'.question
         = choix_meilleure_question(sessions[id].donnees,
               SansCandidat(sessions[id].proba_animaux,
                            sessions[id].animal_propose),
               sessions[id].questions_pas_encore_posees)
    /\ sessions'[id].question_courante = reponse_http'.question
    /\ sessions'[id].animal_propose = 0

\* no unasked question remains: the response is a finalGuess naming the
\* most probable candidate of the reduced belief
PropositionApresRefus(id) ==
    /\ reponse_http'.statut = "finalGuess"
    /\ \A c \in DOMAIN sessions[id].proba_animaux.num :
          BLeq(SansCandidat(sessions[id].proba_animaux,
                            sessions[id].animal_propose).num[c],
               SansCandidat(sessions[id].proba_animaux,
                            sessions[id].animal_propose).num[reponse_http'.animal])
    /\ sessions'[id].animal_propose = reponse_http'.animal

\* the previous pending guess is cleared: the candidate just rejected is
\* not the pending guess after the call
PropositionPrecedenteEffacee(id) ==
    sessions'[id].animal_propose # sessions[id].animal_propose

\* C21: confirm(correct=false) on the first or second rejection of a session
\* returns a nextQuestion chosen by a fresh selector call when an unasked
\* question remains, and otherwise a forced finalGuess computed on the
\* belief with the rejected candidate removed; in both cases the failure
\* counter has increased by exactly 1 and the previous pending guess is
\* cleared.
C21_RejectionContinuesOrForcesGuess ==
    [][PremierOuSecondRefus =>
          /\ EchecCompte(reponse_http'.id)
          /\ IF NonPosees(sessions[reponse_http'.id]) # {}
             THEN QuestionApresRefus(reponse_http'.id)
             ELSE PropositionApresRefus(reponse_http'.id)
          /\ PropositionPrecedenteEffacee(reponse_http'.id)]_vars

\* the response of this step answers an accepted submitAnswer
AnswerAccepte == reponse_http'.op = "answer"

\* the question the accepted submitAnswer of this step answers was not in
\* the AskedSet of its session before the call
RepondAQuestionLibre ==
    sessions[reponse_http'.id].question_courante
        \in NonPosees(sessions[reponse_http'.id])

\* C22: no question is answered twice in a session: every accepted
\* submitAnswer applies its answer to a question that was not in the
\* AskedSet before the call, whatever sequence of submitAnswer and confirm
\* calls the caller issues (including submitAnswer while a guess is
\* outstanding).
C22_NoQuestionAnsweredTwice ==
    [][AnswerAccepte => RepondAQuestionLibre]_vars

\* session id got the acknowledgement and is gone
Acquittee(id) ==
    /\ reponse_http' = Message("suggest", id, "acknowledgement")
    /\ id \notin DOMAIN sessions'

\* C23: contributeSuggestion returns an acknowledgement and terminates the
\* session whether RecordSuggestion succeeds or fails; a recording failure
\* never leaves the session alive and never produces an error result.
C23_SuggestionAcknowledgedEvenIfRecordFails ==
    [][\A id \in DOMAIN sessions : \A success \in BOOLEAN :
          SubmitSuggestion(id, success) =>
              /\ Acquittee(id)
              /\ success => suggestions' = suggestions + 1
              /\ ~success => suggestions' = suggestions]_vars

\* a suggestion was acknowledged and its session ended although nothing was
\* ever recorded, while another suggestion of the run was recorded
C23_Witness ==
    /\ reponse_http.op = "suggest"
    /\ reponse_http.statut = "acknowledgement"
    /\ reponse_http.id \notin DOMAIN sessions
    /\ \E id \in IdSessions \ {reponse_http.id} : dernier[id] = "acknowledgement"
    /\ suggestions = 1

\* the caller of the session with journal j has done nothing but answer the
\* question it was given, and has not received a guess yet
NaFaitQueRepondre(j) ==
    /\ Len(j) >= 1
    /\ j[1].entree = <<"start">>
    /\ \A k \in 2..Len(j) :
          /\ j[k].entree[1] = "answer"
          /\ j[k].sortie.statut = "nextQuestion"

\* C24: a session whose caller keeps answering the question it was given
\* receives a finalGuess after at most N accepted submitAnswer calls, N
\* being the number of questions: as long as every answer since begin was
\* followed by a nextQuestion, fewer than N answers have been accepted.
C24_GuessWithinNAnswers ==
    \A id \in IdSessions :
        NaFaitQueRepondre(journal[id])
            => Len(journal[id]) - 1 < Len(depart[id].donnees)

\* a session with two questions answered both, and the second answer was
\* followed by the guess forced by exhaustion (no candidate above 0.7)
C24_Witness ==
    \E id \in DOMAIN sessions :
        /\ Len(depart[id].donnees) = 2
        /\ Len(journal[id]) = 3
        /\ journal[id][2].entree[1] = "answer"
        /\ journal[id][2].sortie.statut = "nextQuestion"
        /\ journal[id][3].entree[1] = "answer"
        /\ journal[id][3].sortie.statut = "finalGuess"
        /\ NonPosees(sessions[id]) = {}
        /\ \A c \in DOMAIN sessions[id].proba_animaux.num :
              ~AuDessusDe07(sessions[id].proba_animaux, c)

\* the number of questions in the AskedSet of session s
NbPosees(s) == Len(s.donnees) - Cardinality(NonPosees(s))

\* the number of responses carrying a question among the first k entries of
\* the journal j
RECURSIVE NbQuestionsEmises(_, _)
NbQuestionsEmises(j, k) ==
    IF k = 0 THEN 0
    ELSE NbQuestionsEmises(j, k - 1)
         + (IF j[k].sortie.statut \in {"question", "nextQuestion"} THEN 1 ELSE 0)

\* C25: the question ordinal is consistent with the AskedSet: begin returns
\* ordinal 1, every nextQuestion returned by submitAnswer or confirm carries
\* the number of questions already in the AskedSet plus 1, and ordinals
\* increase by exactly 1 from one issued question to the next.
C25_OrdinalMatchesAskedSet ==
    /\ reponse_http.statut = "question" => reponse_http.numero = 1
    /\ reponse_http.statut = "nextQuestion"
          => reponse_http.numero = NbPosees(sessions[reponse_http.id]) + 1
    /\ \A id \in IdSessions : \A k \in DOMAIN journal[id] :
          journal[id][k].sortie.statut \in {"question", "nextQuestion"}
              => journal[id][k].sortie.numero = NbQuestionsEmises(journal[id], k)

====
